---- MODULE Spec2Model ----
(***************************************************************************)
(* A model of crates/eframe/src/web/web_painter_glow.rs: the negotiation   *)
(* of a WebGL context on a canvas (WebPainterGlow::new and                 *)
(* init_glow_context_from_canvas) and the frame protocol of the painter    *)
(* (paint_and_update_textures, handle_screenshots).                        *)
(*                                                                         *)
(* Two specifications share the variables and the operators:               *)
(*   SpecNegotiate  one call of WebPainterGlow::new on every host          *)
(*   Spec           the calls made on a constructed painter                *)
(***************************************************************************)
EXTENDS Integers, Sequences, FiniteSets, TLC

VARIABLES
    options,        \* WebOptions::webgl_context_option handed to new()
    host,           \* what the browser answers to the calls new() makes
    host_log,       \* the calls made on the canvas, the window and the context
    status,         \* "unconstructed", "ready", "failed" (Err) or "panicked"
    error,          \* the Err string new() returned, "" when none
    gl,             \* the context negotiation returned: "webgl1", "webgl2", "none"
    shader_prefix,  \* the shader prefix negotiation returned
    canvas,         \* <<width, height>> of the HtmlCanvasElement
    textures,       \* texture ids the executor holds
    framebuffer,    \* what the executor last rendered: 0 cleared, f the batch of call f
    screenshots,    \* WebPainterGlow::screenshots
    events,         \* the caller's Vec<Event>
    ops,            \* executor calls and queue pushes of the paint call in progress
    ret,            \* the value the paint call in progress returns; "none" between calls
    frame,          \* number of paint calls made so far
    requests,       \* per paint call: its capture list and the canvas size it read
    drained_from,   \* Len(events) when the latest handle_screenshots call began
    call,           \* the paint call in progress: its arguments, the state it began in
    destroys        \* number of destroy() calls forwarded to the executor

vars == <<options, host, host_log, status, error, gl, shader_prefix, canvas,
          textures, framebuffer, screenshots, events, ops, ret, frame, requests,
          drained_from, call, destroys>>

negotiation_vars == <<options, host, host_log, status, error, gl, shader_prefix>>

----------------------------------------------------------------------------
(* Strings the code matches with str::contains, as sequences of characters *)

MacOSX == <<"M", "a", "c", " ", "O", "S", " ", "X">>
Apple == <<"A", "p", "p", "l", "e">>

contains(s, pat) ==
    \E i \in 1..(Len(s) + 1) :
        /\ i + Len(pat) - 1 <= Len(s)
        /\ SubSeq(s, i, i + Len(pat) - 1) = pat

\* sample user agents: Safari on a Mac, WebKitGTK on Linux, a truncated token
UserAgents ==
    { <<"(">> \o MacOSX \o <<")">>,
      <<"X", "1", "1", ";", "L", "i", "n", "u", "x">>,
      <<"M", "a", "c", " ", "O", "S">> }

\* sample unmasked renderer names
Renderers ==
    { Apple \o <<" ", "G", "P", "U">>,
      <<"A", "N", "G", "L", "E">>,
      <<"A", "p", "p", "l">> }

WebGlContextOption == {"WebGl1", "WebGl2", "BestFirst", "CompatibilityFirst"}

\* get_context(name): the context object, nothing (null), or a raised error
ContextAnswers == {"ctx", "null", "err"}

Hosts ==
    [ webgl : ContextAnswers,
      webgl2 : ContextAnswers,
      user_agent : UserAgents,
      \* get_extension("WEBGL_debug_renderer_info"): Ok(Some), Ok(None), Err
      extension : {"some", "none", "err"},
      \* get_parameter(UNMASKED_RENDERER_WEBGL): a string, a non-string, Err
      renderer : [kind : {"string"}, name : Renderers]
                   \cup {[kind |-> "other", name |-> <<>>],
                         [kind |-> "err", name |-> <<>>]},
      \* egui_glow::Painter::new: Ok or Err
      painter_new : {"ok", "err"} ]

BRIGHTENING == "#define APPLY_BRIGHTENING_GAMMA"
UNSUPPORTED == "WebGL isn't supported"
PAINTER_ERROR == "Error starting glow painter"

----------------------------------------------------------------------------
(* Results: Option<(glow::Context, &str)> plus the calls made so far; a     *)
(* panic (expect/unwrap on an Err) is the third tag.                       *)

SomeCtx(version, prefix, log) ==
    [tag |-> "Some", gl |-> version, prefix |-> prefix, log |-> log]
NoneCtx(log) == [tag |-> "None", gl |-> "none", prefix |-> "", log |-> log]
Panic(log) == [tag |-> "Panic", gl |-> "none", prefix |-> "", log |-> log]

\* variant: the renderer name must be "Apple" itself, not merely contain it
is_safari_exact_name(h, log) ==
    LET log1 == Append(log, "get_extension")
        log2 == Append(log1, "get_parameter")
    IN  IF h.extension = "err" THEN [tag |-> "Panic", value |-> FALSE, log |-> log1]
        ELSE IF h.extension = "some"
        THEN IF h.renderer.kind = "string" /\ h.renderer.name = Apple
             THEN [tag |-> "Ok", value |-> TRUE, log |-> log2]
             ELSE [tag |-> "Ok", value |-> FALSE, log |-> log2]
        ELSE [tag |-> "Ok", value |-> FALSE, log |-> log1]

\* variant: the renderer name is read whether or not the extension is there
is_safari_reads_without_extension(h, log) ==
    LET log1 == Append(log, "get_extension")
        log2 == Append(log1, "get_parameter")
    IN  IF h.extension = "err" THEN [tag |-> "Panic", value |-> FALSE, log |-> log1]
        ELSE IF /\ h.renderer.kind = "string"
                /\ contains(h.renderer.name, Apple)
        THEN [tag |-> "Ok", value |-> TRUE, log |-> log2]
        ELSE [tag |-> "Ok", value |-> FALSE, log |-> log2]

is_safari_and_webkit_gtk(h, log) ==
    LET log1 == Append(log, "get_extension")
        log2 == Append(log1, "get_parameter")
    IN  IF h.extension = "err" THEN [tag |-> "Panic", value |-> FALSE, log |-> log1]
        ELSE IF h.extension = "some"
        THEN IF /\ h.renderer.kind = "string"
                /\ contains(h.renderer.name, Apple)
             THEN [tag |-> "Ok", value |-> TRUE, log |-> log2]
             ELSE [tag |-> "Ok", value |-> FALSE, log |-> log2]
        ELSE [tag |-> "Ok", value |-> FALSE, log |-> log1]

\* variant: the user agent is not consulted
webgl1_brightening_ignores_agent(h, log) ==
    is_safari_and_webkit_gtk(h, Append(log, "user_agent"))

webgl1_requires_brightening(h, log) ==
    LET log1 == Append(log, "user_agent")
    IN  IF ~contains(h.user_agent, MacOSX)
        THEN is_safari_and_webkit_gtk(h, log1)
        ELSE [tag |-> "Ok", value |-> FALSE, log |-> log1]

init_webgl1(h, log) ==
    LET log1 == Append(log, "get_context(webgl)")
    IN  IF h.webgl = "err" THEN Panic(log1)
        ELSE IF h.webgl = "null" THEN NoneCtx(log1)
        ELSE LET b == webgl1_requires_brightening(h, log1)
             IN  IF b.tag = "Panic" THEN Panic(b.log)
                 ELSE SomeCtx("webgl1", IF b.value THEN BRIGHTENING ELSE "", b.log)

\* variant: the WebGL2 branch applies the WebGL1 workaround too
init_webgl2_with_workaround(h, log) ==
    LET log1 == Append(log, "get_context(webgl2)")
    IN  IF h.webgl2 = "err" THEN Panic(log1)
        ELSE IF h.webgl2 = "null" THEN NoneCtx(log1)
        ELSE LET b == webgl1_requires_brightening(h, log1)
             IN  IF b.tag = "Panic" THEN Panic(b.log)
                 ELSE SomeCtx("webgl2", IF b.value THEN BRIGHTENING ELSE "", b.log)

\* variant: a raised query error is taken for "no context"
init_webgl2_error_as_none(h, log) ==
    LET log1 == Append(log, "get_context(webgl2)")
    IN  IF h.webgl2 \in {"err", "null"} THEN NoneCtx(log1)
        ELSE SomeCtx("webgl2", "", log1)

init_webgl2(h, log) ==
    LET log1 == Append(log, "get_context(webgl2)")
    IN  IF h.webgl2 = "err" THEN Panic(log1)
        ELSE IF h.webgl2 = "null" THEN NoneCtx(log1)
        ELSE SomeCtx("webgl2", "", log1)

\* Option::or_else: the closure's value, next, is used only on None (it is
\* computed from the log r leaves, so its calls are made only then)
or_else(r, next) == IF r.tag = "None" THEN next ELSE r

\* variant: the two fallback strategies try their versions in the other order
init_glow_context_swapped(h, opt, log) ==
    LET gl1 == init_webgl1(h, log)
        gl2 == init_webgl2(h, log)
        result ==
            CASE opt = "WebGl1" -> gl1
              [] opt = "WebGl2" -> gl2
              [] opt = "BestFirst" -> or_else(gl1, init_webgl2(h, gl1.log))
              [] opt = "CompatibilityFirst" -> or_else(gl2, init_webgl1(h, gl2.log))
    IN  IF result.tag = "Some"
        THEN [tag |-> "Ok", gl |-> result.gl, prefix |-> result.prefix,
              error |-> "", log |-> result.log]
        ELSE IF result.tag = "None"
        THEN [tag |-> "Err", gl |-> "none", prefix |-> "",
              error |-> UNSUPPORTED, log |-> result.log]
        ELSE [tag |-> "Panic", gl |-> "none", prefix |-> "",
              error |-> "", log |-> result.log]

\* variant: a forced version falls back to the other one
init_glow_context_force_falls_back(h, opt, log) ==
    LET gl1 == init_webgl1(h, log)
        gl2 == init_webgl2(h, log)
        result ==
            CASE opt \in {"WebGl1", "CompatibilityFirst"} ->
                    or_else(gl1, init_webgl2(h, gl1.log))
              [] opt \in {"WebGl2", "BestFirst"} ->
                    or_else(gl2, init_webgl1(h, gl2.log))
    IN  IF result.tag = "Some"
        THEN [tag |-> "Ok", gl |-> result.gl, prefix |-> result.prefix,
              error |-> "", log |-> result.log]
        ELSE IF result.tag = "None"
        THEN [tag |-> "Err", gl |-> "none", prefix |-> "",
              error |-> UNSUPPORTED, log |-> result.log]
        ELSE [tag |-> "Panic", gl |-> "none", prefix |-> "",
              error |-> "", log |-> result.log]

init_glow_context_from_canvas(h, opt, log) ==
    LET gl1 == init_webgl1(h, log)
        gl2 == init_webgl2(h, log)
        result ==
            CASE opt = "WebGl1" -> gl1
              [] opt = "WebGl2" -> gl2
              [] opt = "BestFirst" -> or_else(gl2, init_webgl1(h, gl2.log))
              [] opt = "CompatibilityFirst" -> or_else(gl1, init_webgl2(h, gl1.log))
    IN  IF result.tag = "Some"
        THEN [tag |-> "Ok", gl |-> result.gl, prefix |-> result.prefix,
              error |-> "", log |-> result.log]
        ELSE IF result.tag = "None"
        THEN [tag |-> "Err", gl |-> "none", prefix |-> "",
              error |-> UNSUPPORTED, log |-> result.log]
        ELSE [tag |-> "Panic", gl |-> "none", prefix |-> "",
              error |-> "", log |-> result.log]

----------------------------------------------------------------------------
(* Bounds and sample inputs of the painter's calls                         *)

MaxFrames == 2      \* paint calls in one behaviour
MaxTokens == 2      \* capture tokens handed to one paint call
MaxDestroys == 2    \* destroy() calls in one behaviour

TexIds == {1, 2}
CanvasSizes == {<<1, 1>>, <<2, 1>>}
HostSteps == {"set_texture", "clear", "paint_primitives", "read_screen_rgba"}

RECURSIVE Ascending(_)
\* the ids of a set as the sequence a loop over them visits
Ascending(S) ==
    IF S = {} THEN <<>>
    ELSE LET x == CHOOSE y \in S : \A z \in S : y <= z
         IN  <<x>> \o Ascending(S \ {x})

\* egui::TexturesDelta: the insertions and the removals of one frame
TexturesDeltas ==
    { [set |-> Ascending(S), free |-> Ascending(F)] :
        S \in SUBSET TexIds, F \in SUBSET TexIds }

\* the capture list of paint call f with n tokens; UserData is opaque, each
\* token is tagged with the call and its place in the list
Capture(f, n) == [i \in 1..n |-> <<f, i>>]

----------------------------------------------------------------------------
(* The executor, egui_glow::Painter, as the painter uses it                *)

exec_set_texture(tex, id) == tex \cup {id}
exec_free_texture(tex, id) == tex \ {id}
exec_clear(size) == 0
exec_paint_primitives(size, primitives) == primitives
exec_read_screen_rgba(fb, size) == [size |-> size, pixels |-> fb]

\* one step as the log keeps it: the textures held when it is made and
\* whether the host API carried it out without an error
Op(name, id, size, m, bad) ==
    [op |-> name, id |-> id, size |-> size, live |-> m.textures, ok |-> name # bad]

----------------------------------------------------------------------------
(* WebPainterGlow::paint_and_update_textures on the record                 *)
(*   m = [textures, framebuffer, screenshots, ops, ret]                    *)

RECURSIVE set_textures(_, _, _)
set_textures(m, ids, bad) ==
    IF ids = <<>> THEN m
    ELSE set_textures(
            [m EXCEPT !.textures = exec_set_texture(m.textures, Head(ids)),
                      !.ops = Append(m.ops, Op("set_texture", Head(ids), <<>>, m, bad))],
            Tail(ids), bad)

clear(m, canvas_dimension, bad) ==
    [m EXCEPT !.framebuffer = exec_clear(canvas_dimension),
              !.ops = Append(m.ops, Op("clear", 0, canvas_dimension, m, bad))]

paint_primitives(m, canvas_dimension, primitives, bad) ==
    [m EXCEPT !.framebuffer = exec_paint_primitives(canvas_dimension, primitives),
              !.ops = Append(m.ops,
                             Op("paint_primitives", 0, canvas_dimension, m, bad))]

\* variant: the framebuffer is read back and queued on every call
read_and_push_unconditional(m, canvas_dimension, capture, bad) ==
    LET image == exec_read_screen_rgba(m.framebuffer, canvas_dimension)
    IN  [m EXCEPT !.screenshots =
                      Append(m.screenshots, [image |-> image, data |-> capture]),
                  !.ops = m.ops \o
                          <<Op("read_screen_rgba", 0, canvas_dimension, m, bad),
                            Op("screenshots.push", 0, <<>>, m, bad)>>]

\* variant: one queue entry per capture token
read_and_push_per_token(m, canvas_dimension, capture, bad) ==
    IF capture # <<>>
    THEN LET image == exec_read_screen_rgba(m.framebuffer, canvas_dimension)
         IN  [m EXCEPT !.screenshots =
                           m.screenshots \o
                           [i \in 1..Len(capture) |->
                               [image |-> image, data |-> <<capture[i]>>]],
                       !.ops = m.ops \o
                               <<Op("read_screen_rgba", 0, canvas_dimension, m, bad),
                                 Op("screenshots.push", 0, <<>>, m, bad)>>]
    ELSE m

read_and_push(m, canvas_dimension, capture, bad) ==
    IF capture # <<>>
    THEN LET image == exec_read_screen_rgba(m.framebuffer, canvas_dimension)
         IN  [m EXCEPT !.screenshots =
                           Append(m.screenshots, [image |-> image, data |-> capture]),
                       !.ops = m.ops \o
                               <<Op("read_screen_rgba", 0, canvas_dimension, m, bad),
                                 Op("screenshots.push", 0, <<>>, m, bad)>>]
    ELSE m

RECURSIVE free_textures(_, _, _)
free_textures(m, ids, bad) ==
    IF ids = <<>> THEN m
    ELSE free_textures(
            [m EXCEPT !.textures = exec_free_texture(m.textures, Head(ids)),
                      !.ops = Append(m.ops, Op("free_texture", Head(ids), <<>>, m, bad))],
            Tail(ids), bad)

\* variant: the dimensions of an earlier frame's screenshot are reused
paint_caches_dimension(m, cv, primitives, textures_delta, capture, bad) ==
    LET canvas_dimension ==
            IF m.screenshots # <<>> THEN m.screenshots[1].image.size ELSE cv
        m1 == set_textures(m, textures_delta.set, bad)
        m2 == clear(m1, canvas_dimension, bad)
        m3 == paint_primitives(m2, canvas_dimension, primitives, bad)
        m4 == read_and_push(m3, canvas_dimension, capture, bad)
        m5 == free_textures(m4, textures_delta.free, bad)
    IN  [m5 EXCEPT !.ret = "Ok"]

\* variant: the removals are applied first, the insertions after them
paint_frees_first(m, cv, primitives, textures_delta, capture, bad) ==
    LET canvas_dimension == cv
        m0 == free_textures(m, textures_delta.free, bad)
        m1 == set_textures(m0, textures_delta.set, bad)
        m2 == clear(m1, canvas_dimension, bad)
        m3 == paint_primitives(m2, canvas_dimension, primitives, bad)
        m4 == read_and_push(m3, canvas_dimension, capture, bad)
    IN  [m4 EXCEPT !.ret = "Ok"]

\* variant: the readback and the push come after the removals
paint_reads_after_free(m, cv, primitives, textures_delta, capture, bad) ==
    LET canvas_dimension == cv
        m1 == set_textures(m, textures_delta.set, bad)
        m2 == clear(m1, canvas_dimension, bad)
        m3 == paint_primitives(m2, canvas_dimension, primitives, bad)
        m4 == free_textures(m3, textures_delta.free, bad)
        m5 == read_and_push(m4, canvas_dimension, capture, bad)
    IN  [m5 EXCEPT !.ret = "Ok"]

\* variant: the removals are applied before the draw
paint_frees_before_draw(m, cv, primitives, textures_delta, capture, bad) ==
    LET canvas_dimension == cv
        m1 == set_textures(m, textures_delta.set, bad)
        m2 == free_textures(m1, textures_delta.free, bad)
        m3 == clear(m2, canvas_dimension, bad)
        m4 == paint_primitives(m3, canvas_dimension, primitives, bad)
        m5 == read_and_push(m4, canvas_dimension, capture, bad)
    IN  [m5 EXCEPT !.ret = "Ok"]

\* variant: the framebuffer is read back before the batch is drawn
paint_reads_before_draw(m, cv, primitives, textures_delta, capture, bad) ==
    LET canvas_dimension == cv
        m1 == set_textures(m, textures_delta.set, bad)
        m2 == clear(m1, canvas_dimension, bad)
        m3 == read_and_push(m2, canvas_dimension, capture, bad)
        m4 == paint_primitives(m3, canvas_dimension, primitives, bad)
        m5 == free_textures(m4, textures_delta.free, bad)
    IN  [m5 EXCEPT !.ret = "Ok"]

\* variant: a failing host step ends the call with Err, as a `?` on each
\* executor call would
paint_propagates_errors(m, cv, primitives, textures_delta, capture, bad) ==
    LET canvas_dimension == cv
        failed(x) == \E i \in 1..Len(x.ops) : ~x.ops[i].ok
        m1 == set_textures(m, textures_delta.set, bad)
        m2 == clear(m1, canvas_dimension, bad)
        m3 == paint_primitives(m2, canvas_dimension, primitives, bad)
        m4 == read_and_push(m3, canvas_dimension, capture, bad)
        m5 == free_textures(m4, textures_delta.free, bad)
    IN  IF failed(m1) THEN [m1 EXCEPT !.ret = "Err"]
        ELSE IF failed(m2) THEN [m2 EXCEPT !.ret = "Err"]
        ELSE IF failed(m3) THEN [m3 EXCEPT !.ret = "Err"]
        ELSE IF failed(m4) THEN [m3 EXCEPT !.ret = "Err"]
        ELSE [m5 EXCEPT !.ret = "Ok"]

paint_and_update_textures(m, cv, primitives, textures_delta, capture, bad) ==
    LET canvas_dimension == cv
        m1 == set_textures(m, textures_delta.set, bad)
        m2 == clear(m1, canvas_dimension, bad)
        m3 == paint_primitives(m2, canvas_dimension, primitives, bad)
        m4 == read_and_push(m3, canvas_dimension, capture, bad)
        m5 == free_textures(m4, textures_delta.free, bad)
    IN  [m5 EXCEPT !.ret = "Ok"]

----------------------------------------------------------------------------
(* WebPainterGlow::handle_screenshots                                      *)

RECURSIVE push_events_reversed(_, _, _)
\* variant: the tokens of an entry are delivered last first
push_events_reversed(evs, image, data) ==
    IF data = <<>> THEN evs
    ELSE push_events_reversed(
            Append(evs, [viewport_id |-> "ROOT", image |-> image,
                         user_data |-> data[Len(data)]]),
            image, SubSeq(data, 1, Len(data) - 1))

RECURSIVE push_events(_, _, _)
push_events(evs, image, data) ==
    IF data = <<>> THEN evs
    ELSE push_events(
            Append(evs, [viewport_id |-> "ROOT", image |-> image,
                         user_data |-> Head(data)]),
            image, Tail(data))

RECURSIVE drain_newest_first(_, _)
\* variant: the queue is emptied from its newest entry
drain_newest_first(queue, evs) ==
    IF queue = <<>> THEN evs
    ELSE drain_newest_first(
            SubSeq(queue, 1, Len(queue) - 1),
            push_events(evs, queue[Len(queue)].image, queue[Len(queue)].data))

RECURSIVE drain_into(_, _)
drain_into(queue, evs) ==
    IF queue = <<>> THEN evs
    ELSE drain_into(Tail(queue), push_events(evs, Head(queue).image, Head(queue).data))

\* variant: the caller's list is emptied before the events are pushed
handle_screenshots_replaces_events(queue, evs) ==
    [screenshots |-> <<>>, events |-> drain_into(queue, <<>>)]

\* variant: only the oldest entry is taken from the queue
handle_screenshots_first_only(queue, evs) ==
    IF queue = <<>> THEN [screenshots |-> <<>>, events |-> evs]
    ELSE [screenshots |-> Tail(queue),
          events |-> push_events(evs, Head(queue).image, Head(queue).data)]

handle_screenshots(queue, evs) ==
    [screenshots |-> <<>>, events |-> drain_into(queue, evs)]

----------------------------------------------------------------------------
(* WebPainterGlow::destroy                                                 *)

\* the executor's destroy(): every texture it holds is released
exec_destroy(x) == [textures |-> {}, destroys |-> x.destroys + 1]

\* variant: destroy() also drops the screenshots still queued
destroy_drops_queue(p) ==
    LET x == exec_destroy([textures |-> p.textures, destroys |-> p.destroys])
    IN  [p EXCEPT !.textures = x.textures, !.destroys = x.destroys,
                  !.screenshots = <<>>]

\* self.painter.destroy() and nothing else: no field of the painter is written
destroy(p) ==
    LET x == exec_destroy([textures |-> p.textures, destroys |-> p.destroys])
    IN  [p EXCEPT !.textures = x.textures, !.destroys = x.destroys]

----------------------------------------------------------------------------
(* Actions                                                                 *)

NoCall ==
    [textures |-> {}, screenshots |-> <<>>, delta |-> [set |-> <<>>, free |-> <<>>],
     capture |-> <<>>, bad |-> "none"]

\* WebPainterGlow::new(ctx, canvas, options)
New ==
    /\ status = "unconstructed"
    /\ LET r == init_glow_context_from_canvas(host, options, host_log)
       IN  /\ host_log' = r.log
           /\ IF r.tag = "Panic"
              THEN /\ status' = "panicked"
                   /\ UNCHANGED <<error, gl, shader_prefix>>
              ELSE IF r.tag = "Err"
              THEN /\ status' = "failed"
                   /\ error' = r.error
                   /\ UNCHANGED <<gl, shader_prefix>>
              ELSE /\ gl' = r.gl
                   /\ shader_prefix' = r.prefix
                   /\ IF host.painter_new = "err"
                      THEN /\ status' = "failed"
                           /\ error' = PAINTER_ERROR
                      ELSE /\ status' = "ready"
                           /\ UNCHANGED error
    /\ screenshots' = <<>>
    /\ UNCHANGED <<options, host, canvas, textures, framebuffer, events, ops, ret,
                   frame, requests, drained_from, call, destroys>>

\* the host resizes the canvas between two calls
Resize ==
    /\ status = "ready"
    /\ ret = "none"
    /\ \E size \in CanvasSizes \ {canvas} : canvas' = size
    /\ UNCHANGED <<negotiation_vars, textures, framebuffer, screenshots, events,
                   ops, ret, frame, requests, drained_from, call, destroys>>

\* the body of one call of paint_and_update_textures, up to its return
\* expression, with its texture delta drawn from deltas; bad is the host API
\* step, if any, that the host fails to carry out during this call
PaintWith(deltas, steps) ==
    /\ status = "ready"
    /\ ret = "none"
    /\ frame < MaxFrames
    /\ \E textures_delta \in deltas, n \in 0..MaxTokens, bad \in steps :
          LET capture == Capture(frame + 1, n)
              m == [textures |-> textures, framebuffer |-> framebuffer,
                    screenshots |-> screenshots, ops |-> <<>>, ret |-> "none"]
              after == paint_and_update_textures(m, canvas, frame + 1,
                                                 textures_delta, capture, bad)
          IN  /\ textures' = after.textures
              /\ framebuffer' = after.framebuffer
              /\ screenshots' = after.screenshots
              /\ ops' = after.ops
              /\ ret' = after.ret
              /\ frame' = frame + 1
              /\ requests' = Append(requests, [capture |-> capture, size |-> canvas])
              /\ call' = [textures |-> textures, screenshots |-> screenshots,
                          delta |-> textures_delta, capture |-> capture,
                          bad |-> bad]
    /\ UNCHANGED <<canvas, events, drained_from, destroys>>

\* variant: every paint call negotiates the context again
Paint_renegotiates ==
    /\ PaintWith(TexturesDeltas, HostSteps \cup {"none"})
    /\ LET r == init_glow_context_from_canvas(host, options, host_log)
       IN  /\ host_log' = r.log
           /\ gl' = r.gl
           /\ shader_prefix' = r.prefix
    /\ UNCHANGED <<options, host, status, error>>

\* a paint call with any texture delta, on a host that may fail any one step
Paint ==
    /\ PaintWith(TexturesDeltas, HostSteps \cup {"none"})
    /\ UNCHANGED negotiation_vars

\* paint_and_update_textures returns to its caller: its arguments and locals
\* are gone
PaintReturn ==
    /\ status = "ready"
    /\ ret # "none"
    /\ ret' = "none"
    /\ ops' = <<>>
    /\ call' = NoCall
    /\ UNCHANGED <<negotiation_vars, canvas, textures, framebuffer, screenshots,
                   events, frame, requests, drained_from, destroys>>

\* one call of handle_screenshots(events)
HandleScreenshots ==
    /\ status = "ready"
    /\ ret = "none"
    /\ LET after == handle_screenshots(screenshots, events)
       IN  /\ screenshots' = after.screenshots
           /\ events' = after.events
    /\ drained_from' = Len(events)
    /\ UNCHANGED <<negotiation_vars, canvas, textures, framebuffer, ops, ret,
                   frame, requests, call, destroys>>

\* one call of max_texture_side(): the executor's limit is read
MaxTextureSide ==
    /\ status = "ready"
    /\ ret = "none"
    /\ UNCHANGED vars

\* one call of canvas(): a reference to the canvas field is handed out
GetCanvas ==
    /\ status = "ready"
    /\ ret = "none"
    /\ UNCHANGED vars

\* one call of destroy()
Destroy ==
    /\ status = "ready"
    /\ ret = "none"
    /\ destroys < MaxDestroys
    /\ LET after == destroy([textures |-> textures, screenshots |-> screenshots,
                             destroys |-> destroys])
       IN  /\ textures' = after.textures
           /\ screenshots' = after.screenshots
           /\ destroys' = after.destroys
    /\ UNCHANGED <<negotiation_vars, canvas, framebuffer, events, ops, ret, frame,
                   requests, drained_from, call>>

\* a paint call of the shutdown scenarios: any texture delta, on a host that
\* carries out every step
PaintPlain ==
    /\ PaintWith(TexturesDeltas, {"none"})
    /\ UNCHANGED negotiation_vars

----------------------------------------------------------------------------
(* Specifications                                                          *)

NoPainter ==
    /\ status = "unconstructed"
    /\ error = ""
    /\ gl = "none"
    /\ shader_prefix = ""
    /\ host_log = <<>>
    /\ canvas \in CanvasSizes
    /\ textures = {}
    /\ framebuffer = 0
    /\ screenshots = <<>>
    /\ events = <<>>
    /\ ops = <<>>
    /\ ret = "none"
    /\ frame = 0
    /\ requests = <<>>
    /\ drained_from = 0
    /\ call = NoCall
    /\ destroys = 0

\* new() called with every option on every host
InitNegotiate ==
    /\ options \in WebGlContextOption
    /\ host \in Hosts
    /\ NoPainter

NextNegotiate == New

SpecNegotiate == InitNegotiate /\ [][NextNegotiate]_vars

\* the host on which the painter of Spec is constructed: WebKitGTK offering
\* only WebGL1 (the painter's calls read neither the host nor the context)
PainterHost ==
    [webgl |-> "ctx", webgl2 |-> "null",
     user_agent |-> <<"X", "1", "1", ";", "L", "i", "n", "u", "x">>,
     extension |-> "some",
     renderer |-> [kind |-> "string", name |-> Apple \o <<" ", "G", "P", "U">>],
     painter_new |-> "ok"]

\* the painter as new() returns it
Constructed(h, opt) ==
    LET r == init_glow_context_from_canvas(h, opt, <<>>)
    IN  /\ r.tag = "Ok"
        /\ h.painter_new = "ok"
        /\ options = opt
        /\ host = h
        /\ host_log = r.log
        /\ status = "ready"
        /\ error = ""
        /\ gl = r.gl
        /\ shader_prefix = r.prefix

Init ==
    /\ Constructed(PainterHost, "BestFirst")
    /\ canvas \in CanvasSizes
    /\ textures = {}
    /\ framebuffer = 0
    /\ screenshots = <<>>
    /\ events = <<>>
    /\ ops = <<>>
    /\ ret = "none"
    /\ frame = 0
    /\ requests = <<>>
    /\ drained_from = 0
    /\ call = NoCall
    /\ destroys = 0

\* the calls made on a painter in use
Next ==
    Paint \/ PaintReturn \/ HandleScreenshots \/ Resize \/ MaxTextureSide \/ GetCanvas

Spec == Init /\ [][Next]_vars

\* the calls made on a painter that is being shut down, destroy() among them
NextShutdown == PaintPlain \/ PaintReturn \/ HandleScreenshots \/ Destroy

SpecShutdown == Init /\ [][NextShutdown]_vars

----------------------------------------------------------------------------
(* Negotiation: observations of a finished call of new()                   *)

ContextQuery == [webgl |-> "get_context(webgl)", webgl2 |-> "get_context(webgl2)"]
VersionOf == [webgl |-> "webgl1", webgl2 |-> "webgl2"]

\* the context names asked of the canvas, in the order asked
Queried ==
    LET IsQuery(c) == c \in {ContextQuery.webgl, ContextQuery.webgl2}
        name(c) == IF c = ContextQuery.webgl THEN "webgl" ELSE "webgl2"
        qs == SelectSeq(host_log, IsQuery)
    IN  [i \in 1..Len(qs) |-> name(qs[i])]

\* the order each strategy is documented to try
Candidates(opt) ==
    CASE opt = "WebGl1" -> <<"webgl">>
      [] opt = "WebGl2" -> <<"webgl2">>
      [] opt = "BestFirst" -> <<"webgl2", "webgl">>
      [] opt = "CompatibilityFirst" -> <<"webgl", "webgl2">>

Answer(name) == IF name = "webgl" THEN host.webgl ELSE host.webgl2

Negotiated == status # "unconstructed"
Unsupported == status = "failed" /\ error = UNSUPPORTED

\* C1: negotiation queries the canvas in the order of its strategy (WebGl1:
\* webgl; WebGl2: webgl2; BestFirst: webgl2 then webgl; CompatibilityFirst:
\* webgl then webgl2), goes on to the next candidate only after a query that
\* returned nothing, returns the context of the first query that returned one
\* (whenever it returns: a host call that raises makes it panic instead), and
\* fails with "WebGL isn't supported" exactly when every candidate of the
\* strategy returned nothing.
C1_QueryOrder ==
    Negotiated =>
        LET q == Queried
            cand == Candidates(options)
        IN  /\ Len(q) >= 1
            /\ Len(q) <= Len(cand)
            /\ \A i \in 1..Len(q) : q[i] = cand[i]
            /\ \A i \in 1..(Len(q) - 1) : Answer(q[i]) = "null"
            /\ Len(q) < Len(cand) => Answer(q[Len(q)]) # "null"
            /\ Answer(q[Len(q)]) = "ctx" =>
                   /\ ~Unsupported
                   /\ status # "panicked" => gl = VersionOf[q[Len(q)]]
                   /\ status = "panicked" => host.extension = "err"
            /\ Unsupported <=> \A i \in 1..Len(cand) : Answer(cand[i]) = "null"

\* BestFirst fell back: webgl2 returned nothing, webgl returned a context
C1_Witness ==
    /\ status = "ready"
    /\ options = "BestFirst"
    /\ Queried = <<"webgl2", "webgl">>
    /\ gl = "webgl1"

\* C2: under a forced version (WebGl1 or WebGl2) whose query returns nothing,
\* negotiation fails with "WebGL isn't supported" and the other version is
\* never queried.
C2_ForcedNoFallback ==
    /\ (Negotiated /\ options = "WebGl1" /\ host.webgl = "null") =>
           /\ Unsupported
           /\ gl = "none"
           /\ \A i \in 1..Len(host_log) : host_log[i] # ContextQuery.webgl2
    /\ (Negotiated /\ options = "WebGl2" /\ host.webgl2 = "null") =>
           /\ Unsupported
           /\ gl = "none"
           /\ \A i \in 1..Len(host_log) : host_log[i] # ContextQuery.webgl

\* WebGl1 was forced on a host that offers only WebGL2
C2_Witness ==
    /\ Negotiated
    /\ options = "WebGl1"
    /\ host.webgl = "null"
    /\ host.webgl2 = "ctx"
    /\ Unsupported

\* some query made on the canvas raised an error
QueryRaised == \E i \in 1..Len(Queried) : Answer(Queried[i]) = "err"

\* C3 as claimed: when a context query raises an error, negotiation returns an
\* error value (QueryFailed) to the caller, queries no further candidate and
\* constructs no painter.
C3_QueryFailedReturned ==
    (Negotiated /\ QueryRaised) =>
        /\ status = "failed"
        /\ error # ""
        /\ Answer(Queried[Len(Queried)]) = "err"

\* C3 as amended: when a context query raises an error, the expect on the
\* query result panics: new() returns nothing to its caller (no Err value), the
\* raising query is the last call made on the host, and no painter is
\* constructed.
C3_QueryErrorPanics ==
    (Negotiated /\ QueryRaised) =>
        /\ status = "panicked"
        /\ error = ""
        /\ gl = "none"
        /\ host_log[Len(host_log)] \in {ContextQuery.webgl, ContextQuery.webgl2}
        /\ Answer(Queried[Len(Queried)]) = "err"
        /\ \A i \in 1..(Len(Queried) - 1) : Answer(Queried[i]) # "err"

\* BestFirst on a host whose webgl2 query raises while webgl is available
C3_Witness ==
    /\ options = "BestFirst"
    /\ host.webgl2 = "err"
    /\ host.webgl = "ctx"
    /\ status = "panicked"
    /\ host_log = <<ContextQuery.webgl2>>

----------------------------------------------------------------------------
(* The painter: observations of a paint call and of the queue              *)

\* the body of a paint call has run and its value is about to be returned
Painted == ret # "none"

Ids(seq) == {seq[i] : i \in 1..Len(seq)}
Captures == call.capture # <<>>

\* C4: in one paint call the steps come in this order: every insertion of the
\* delta, the clear, the draw, then (only with capture tokens) the readback and
\* the push on the queue, then every removal of the delta.
C4_StepOrder ==
    Painted =>
        LET ns == Len(call.delta.set)
            nf == Len(call.delta.free)
            k == IF Captures THEN 2 ELSE 0
        IN  /\ Len(ops) = ns + 2 + k + nf
            /\ \A i \in 1..ns :
                   ops[i].op = "set_texture" /\ ops[i].id = call.delta.set[i]
            /\ ops[ns + 1].op = "clear"
            /\ ops[ns + 2].op = "paint_primitives"
            /\ Captures => /\ ops[ns + 3].op = "read_screen_rgba"
                           /\ ops[ns + 4].op = "screenshots.push"
            /\ \A j \in 1..nf :
                   /\ ops[ns + 2 + k + j].op = "free_texture"
                   /\ ops[ns + 2 + k + j].id = call.delta.free[j]

\* a call with insertions, removals and capture tokens
C4_Witness ==
    /\ Painted
    /\ Len(call.delta.set) = 2
    /\ call.delta.free # <<>>
    /\ Captures
    /\ Len(ops) >= 7

\* C5: when the draw of a paint call executes, the executor holds every
\* texture the call's delta inserts and every texture held before the call,
\* those the same delta removes included.
C5_TexturesLiveAtDraw ==
    Painted =>
        /\ \E i \in 1..Len(ops) : ops[i].op = "paint_primitives"
        /\ \A i \in 1..Len(ops) :
               ops[i].op = "paint_primitives" =>
                   /\ Ids(call.delta.set) \subseteq ops[i].live
                   /\ call.textures \subseteq ops[i].live

\* the delta removes a texture that was held before the call, and inserts and
\* removes another one
C5_Witness ==
    /\ Painted
    /\ call.textures = {1}
    /\ call.delta.set = <<2>>
    /\ call.delta.free = <<1, 2>>
    /\ textures = {}

----------------------------------------------------------------------------
(* The screenshot queue                                                    *)

\* the tokens handed to the paint calls made so far
Requested ==
    UNION {{requests[f].capture[i] : i \in 1..Len(requests[f].capture)} :
             f \in 1..Len(requests)}

\* the places <<entry, index>> of the queue q
Places(q) == UNION {{<<e, j>> : j \in 1..Len(q[e].data)} : e \in 1..Len(q)}

\* how often token t sits in the queue q, and in the event list evs
InQueue(q, t) == Cardinality({x \in Places(q) : q[x[1]].data[x[2]] = t})
InEvents(evs, t) == Cardinality({j \in 1..Len(evs) : evs[j].user_data = t})
QueuedTokens(q) == {q[x[1]].data[x[2]] : x \in Places(q)}

RECURSIVE SumLen(_)
SumLen(q) == IF q = <<>> THEN 0 ELSE Len(Head(q).data) + SumLen(Tail(q))

\* every token handed to a paint call is in exactly one place, the queue or
\* the event list, exactly once; nothing else is in either
EachTokenOnce ==
    /\ \A t \in Requested :
           InQueue(screenshots, t) + InEvents(events, t) = 1
    /\ SumLen(screenshots) + Len(events) = Cardinality(Requested)

\* a handle_screenshots call takes the whole queue and delivers each of its
\* tokens
DrainsWholeQueue ==
    HandleScreenshots =>
        /\ screenshots' = <<>>
        /\ \A t \in QueuedTokens(screenshots) :
               InEvents(events, t) = 0 /\ InEvents(events', t) = 1

\* C6: over any interleaving of paint and handle_screenshots calls, every
\* capture token handed to a paint call is delivered as exactly one
\* Screenshot event, by the first handle_screenshots call after that paint
\* call; none is delivered twice, none is lost, and a handle_screenshots call
\* removes the whole queue.
C6_ExactlyOnce == []EachTokenOnce /\ [][DrainsWholeQueue]_vars

\* two paint calls with tokens were drained by two different calls
C6_Witness ==
    /\ frame = 2
    /\ ret = "none"
    /\ Len(requests[1].capture) = 2
    /\ Len(requests[2].capture) = 1
    /\ drained_from = 2
    /\ Len(events) = 3
    /\ screenshots = <<>>

\* the events the latest handle_screenshots call appended
Appended == SubSeq(events, drained_from + 1, Len(events))

RECURSIVE PendingCaptures(_, _)
\* the capture lists, in call order from call f on, of the paint calls whose
\* tokens are not in the event list evs yet
PendingCaptures(f, evs) ==
    IF f > Len(requests) THEN <<>>
    ELSE LET c == requests[f].capture
         IN  (IF c # <<>> /\ InEvents(evs, c[1]) = 0 THEN c ELSE <<>>)
                 \o PendingCaptures(f + 1, evs)

DrainsInCallOrder ==
    HandleScreenshots =>
        LET added == SubSeq(events', Len(events) + 1, Len(events'))
        IN  /\ SubSeq(events', 1, Len(events)) = events
            /\ [j \in 1..Len(added) |-> added[j].user_data]
                   = PendingCaptures(1, events)
            /\ screenshots' = <<>>

\* C7: after N paint calls with capture tokens, one handle_screenshots call
\* appends their events grouped by paint call, in the order the paint calls
\* were made, and leaves the queue empty.
C7_FifoDrain == [][DrainsInCallOrder]_vars

\* one handle_screenshots call delivered the tokens of two paint calls
C7_Witness ==
    /\ frame = 2
    /\ screenshots = <<>>
    /\ Len(Appended) >= 2
    /\ Appended[1].user_data[1] = 1
    /\ Appended[Len(Appended)].user_data[1] = 2

\* C8: each drained entry yields one event per capture token, in the order of
\* its token list, and all events of an entry carry the image read back in
\* the paint call that was given those tokens.
C8_OneEventPerToken ==
    \A j \in 1..Len(events) :
        LET f == events[j].user_data[1]
            i == events[j].user_data[2]
        IN  /\ f \in 1..Len(requests)
            /\ i \in 1..Len(requests[f].capture)
            /\ events[j].image = [size |-> requests[f].size, pixels |-> f]
            /\ i > 1 => j > 1 /\ events[j - 1].user_data = <<f, i - 1>>
            /\ i < Len(requests[f].capture) =>
                   j < Len(events) /\ events[j + 1].user_data = <<f, i + 1>>
            /\ Cardinality({k \in 1..Len(events) : events[k].user_data[1] = f})
                   = Len(requests[f].capture)

\* a paint call with tokens [t1, t2] gave two events, t1 then t2, same image
C8_Witness ==
    /\ Len(events) = 2
    /\ events[1].user_data = <<1, 1>>
    /\ events[2].user_data = <<1, 2>>
    /\ events[1].image = events[2].image
    /\ Len(requests[1].capture) = 2

\* C9: a paint call lengthens the queue by exactly one entry when it is given
\* capture tokens, however many, and by none when it is given none; without
\* tokens it reads nothing back.
C9_OneEntryPerCall ==
    Painted =>
        LET reads == {i \in 1..Len(ops) : ops[i].op = "read_screen_rgba"}
        IN  /\ Captures => /\ Len(screenshots) = Len(call.screenshots) + 1
                           /\ Cardinality(reads) = 1
            /\ ~Captures => /\ Len(screenshots) = Len(call.screenshots)
                            /\ reads = {}

\* a call with two tokens added one entry behind an entry already queued
C9_Witness ==
    /\ Painted
    /\ Len(call.capture) = 2
    /\ Len(call.screenshots) = 1
    /\ Len(screenshots) = 2

\* a host API step of the paint call in progress failed
HostFailed == \E i \in 1..Len(ops) : ~ops[i].ok

\* C10 as claimed: when a host API step fails during a paint call, the call
\* returns an error and the queue and the textures uploaded before the call
\* are as they were before it.
C10_ErrorReturned ==
    (Painted /\ HostFailed) =>
        /\ ret = "Err"
        /\ screenshots = call.screenshots
        /\ call.textures \subseteq textures

\* C10 as amended: a failing host API step is not reported. The call has no
\* error path: when it returns it returns Ok(()) after running every step, so
\* the entries queued before it stay at the head of the queue (one entry is
\* still appended when capture tokens were given) and the textures held
\* before it stay held except those its own delta removes.
C10_FailureNotReported ==
    (Painted /\ HostFailed) =>
        /\ ret = "Ok"
        /\ Len(ops) = Len(call.delta.set) + 2 + (IF Captures THEN 2 ELSE 0)
                        + Len(call.delta.free)
        /\ Len(screenshots) = Len(call.screenshots) + (IF Captures THEN 1 ELSE 0)
        /\ SubSeq(screenshots, 1, Len(call.screenshots)) = call.screenshots
        /\ (call.textures \ Ids(call.delta.free)) \subseteq textures

\* the draw failed in a call that had capture tokens and textures to remove
C10_Witness ==
    /\ Painted
    /\ call.bad = "paint_primitives"
    /\ HostFailed
    /\ Captures
    /\ call.screenshots # <<>>
    /\ call.textures = {1, 2}
    /\ call.delta.free = <<1>>
    /\ ret = "Ok"

----------------------------------------------------------------------------
(* The shader prefix                                                       *)

\* negotiation returned the WebGL1 (legacy) or the WebGL2 (modern) context
LegacySelected == Negotiated /\ gl = "webgl1"
ModernSelected == Negotiated /\ gl = "webgl2"

Logged(c) == \E i \in 1..Len(host_log) : host_log[i] = c
AppleRenderer == host.renderer.kind = "string" /\ contains(host.renderer.name, Apple)
MacAgent == contains(host.user_agent, MacOSX)

\* C11 as claimed: with the WebGL1 context selected, a user agent without
\* "Mac OS X" and an unmasked renderer name containing "Apple", the prefix is
\* the brightening directive.
C11_AppleMeansBrightening ==
    (LegacySelected /\ ~MacAgent /\ AppleRenderer) => shader_prefix = BRIGHTENING

\* C11 as amended: with the WebGL1 context selected, a user agent without
\* "Mac OS X", the WEBGL_debug_renderer_info extension present and an unmasked
\* renderer name containing "Apple", the prefix is the brightening directive;
\* without the extension the name is not read and the prefix is empty.
C11_BrighteningWithExtension ==
    (LegacySelected /\ ~MacAgent /\ AppleRenderer) =>
        /\ host.extension = "some" => shader_prefix = BRIGHTENING
        /\ host.extension = "none" => shader_prefix = "" /\ ~Logged("get_parameter")

\* WebKitGTK: brightening selected after the renderer name was read
C11_Witness ==
    /\ LegacySelected
    /\ ~MacAgent
    /\ AppleRenderer
    /\ host.extension = "some"
    /\ shader_prefix = BRIGHTENING
    /\ Logged("get_parameter")

\* C12: when the webgl query returned the context that negotiation uses and
\* the user agent contains "Mac OS X", the WebGL1 context is returned with an
\* empty prefix, whatever the extension and the renderer name are.
C12_MacNeverBrightened ==
    (Negotiated /\ Logged(ContextQuery.webgl) /\ host.webgl = "ctx" /\ MacAgent) =>
        /\ gl = "webgl1"
        /\ shader_prefix = ""
        /\ ~Logged("get_extension")
        /\ ~Logged("get_parameter")

\* Safari on a Mac: extension present, renderer "Apple GPU", no brightening
C12_Witness ==
    /\ LegacySelected
    /\ MacAgent
    /\ host.extension = "some"
    /\ AppleRenderer
    /\ shader_prefix = ""

\* C13: with the WebGL1 context selected on a host without the
\* WEBGL_debug_renderer_info extension, the prefix is empty for every user
\* agent and the unmasked renderer name is never read.
C13_NoExtensionNoBrightening ==
    (LegacySelected /\ host.extension = "none") =>
        /\ shader_prefix = ""
        /\ ~Logged("get_parameter")

\* no extension on a host that is not a Mac and would name an Apple renderer
C13_Witness ==
    /\ LegacySelected
    /\ host.extension = "none"
    /\ ~MacAgent
    /\ AppleRenderer
    /\ Logged("get_extension")
    /\ shader_prefix = ""

\* C14: whenever negotiation returns the WebGL2 context the prefix is empty,
\* for every strategy, user agent, extension and renderer name; under
\* BestFirst with WebGL2 available the webgl context is never queried.
C14_ModernPrefixEmpty ==
    /\ ModernSelected => shader_prefix = ""
    /\ (Negotiated /\ options = "BestFirst" /\ host.webgl2 = "ctx") =>
           /\ gl = "webgl2"
           /\ Queried = <<"webgl2">>

\* BestFirst took WebGL2 on a host where WebGL1 would have been brightened
C14_Witness ==
    /\ ModernSelected
    /\ options = "BestFirst"
    /\ host.webgl = "ctx"
    /\ ~MacAgent
    /\ host.extension = "some"
    /\ AppleRenderer
    /\ shader_prefix = ""

----------------------------------------------------------------------------
(* destroy()                                                               *)

----------------------------------------------------------------------------
(* Canvas dimensions, the context and the texture set across calls         *)

SizedSteps == {"clear", "paint_primitives", "read_screen_rgba"}

\* C16: the clear, the draw and the readback of a paint call all use the
\* width and height the canvas has when the call is made, and so does the
\* image it queues; a resize between two calls shows in the later call.
C16_DimensionsOfThisCall ==
    Painted =>
        /\ requests[frame].size = canvas
        /\ \A i \in 1..Len(ops) : ops[i].op \in SizedSteps => ops[i].size = canvas
        /\ Captures => screenshots[Len(screenshots)].image.size = canvas

\* two capturing calls with a resize between them: two image sizes queued
C16_Witness ==
    /\ Painted
    /\ frame = 2
    /\ requests[1].size # canvas
    /\ Len(screenshots) = 2
    /\ screenshots[1].image.size = requests[1].size
    /\ screenshots[2].image.size = canvas
    /\ \E i \in 1..Len(ops) : ops[i].op = "read_screen_rgba" /\ ops[i].size = canvas

\* C17: after new() has returned, no call of paint_and_update_textures,
\* handle_screenshots, max_texture_side or canvas queries the canvas or the
\* context again, and none changes the context or the shader prefix.
C17_ContextFixedAtConstruction ==
    [][/\ host_log' = host_log
       /\ gl' = gl
       /\ shader_prefix' = shader_prefix]_vars

\* both paint calls made and screenshots delivered, the host-call log still
\* the one new() left
C17_Witness ==
    /\ frame = MaxFrames
    /\ events # <<>>
    /\ gl = "webgl1"
    /\ shader_prefix = BRIGHTENING
    /\ Queried = <<"webgl2", "webgl">>
    /\ Len(host_log) = 5

\* C18: when a paint call has run, the textures the executor holds are those
\* held before the call plus the delta's insertions, minus the delta's
\* removals; an id inserted and removed by the same delta is not held.
C18_LiveTextures ==
    Painted =>
        /\ textures = (call.textures \cup Ids(call.delta.set)) \ Ids(call.delta.free)
        /\ \A id \in Ids(call.delta.set) \cap Ids(call.delta.free) : id \notin textures

\* one id inserted and removed by the same delta, another kept from before
C18_Witness ==
    /\ Painted
    /\ call.textures = {2}
    /\ 1 \in Ids(call.delta.set) \cap Ids(call.delta.free)
    /\ textures = {2}

----------------------------------------------------------------------------
(* What a drain does to the caller's list                                  *)

AppendsOnly ==
    HandleScreenshots =>
        /\ Len(events') >= Len(events)
        /\ SubSeq(events', 1, Len(events)) = events
        /\ textures' = textures
        /\ framebuffer' = framebuffer
        /\ ops' = <<>>
        /\ screenshots = <<>> => events' = events

\* C19: handle_screenshots only appends to the caller's event list: the
\* events already there stay, unchanged, as a prefix; it makes no texture or
\* framebuffer call on the executor; with an empty queue it leaves the list
\* as it was.
C19_AppendsOnly == [][AppendsOnly]_vars

\* a second drain appended its events behind the event of an earlier drain
C19_Witness ==
    /\ drained_from = 1
    /\ Len(events) = 3
    /\ events[1].user_data[1] = 1
    /\ events[3].user_data[1] = 2
    /\ screenshots = <<>>

NoEmptyEntry == \A e \in 1..Len(screenshots) : screenshots[e].data # <<>>

CountsTokens ==
    HandleScreenshots =>
        /\ Len(events') - Len(events) = SumLen(screenshots)
        /\ Len(events') - Len(events) >= Len(screenshots)

\* C20: in every reachable state every queue entry has at least one token,
\* so a drain appends at least one event per entry, and as many events as
\* there are tokens in the whole queue.
C20_NoEmptyEntry == []NoEmptyEntry /\ [][CountsTokens]_vars

\* a drain has turned two entries, of one and of two tokens, into three events
C20_Witness ==
    /\ frame = 2
    /\ Len(requests[1].capture) = 1
    /\ Len(requests[2].capture) = 2
    /\ drained_from = 0
    /\ Len(events) = 3
    /\ screenshots = <<>>

====
